---- MODULE Spec2Model ----
(***************************************************************************)
(* Bigram counting over a word list, as the "Final Example" cells of the   *)
(* notebook run it: the dictionary approach (b, sorted_bigrams) followed   *)
(* by the 2D array approach (chars, stoi, itos, N).                        *)
(*                                                                         *)
(* A character is a one-character string, a word is a sequence of          *)
(* characters, a Python list is a sequence, a Python dict is the sequence  *)
(* of its (key, value) items in insertion order.                           *)
(***************************************************************************)
EXTENDS Integers, Sequences, FiniteSets, TLC

\* Bounds of the model: the number of lines of names.txt and the number of
\* characters of all its lines together.
MaxWords == 2
MaxChars == 4

\* The characters a line of names.txt is made of in this model; "." is the
\* character the 2D array cell also uses as its start/end token.
Alphabet == {".", "a", "b"}

\* The slice bound of sorted_bigrams[:10].
TopK == 10

\* Code points of the strings the cells compare (str comparison in Python is
\* lexicographic on code points).
codepoints ==
    ("." :> <<46>>) @@ ("<E>" :> <<60, 69, 62>>) @@ ("<S>" :> <<60, 83, 62>>)
        @@ ("a" :> <<97>>) @@ ("b" :> <<98>>)

VARIABLES words, pc, wi, ci, b, sorted_bigrams, top, k, chars, stoi, itos, N

\* b_runs: the table b as each earlier run of the dictionary cell left it.
\* batchify, countdown, count_up_to: the frame of the one call of the
\* generator function of that name, with what its consumer has received.
VARIABLES b_runs, batchify, countdown, count_up_to

\* cells_run: the cells run before the current run of the 2D array cell.
\* safe_divide: the frame of the one call of safe_divide, with what it printed.
\* gen: the frame of the quiz generator g = gen(), with what was printed.
\* quiz11: the value formatted by the print of Quiz 11 and what it printed.
VARIABLES cells_run, safe_divide, gen, quiz11

\* what the steps of the two bigram cells leave alone
others ==
    <<b_runs, batchify, countdown, count_up_to, cells_run, safe_divide, gen, quiz11>>

vars ==
    <<words, pc, wi, ci, b, sorted_bigrams, top, k, chars, stoi, itos, N,
      b_runs, batchify, countdown, count_up_to, cells_run, safe_divide, gen, quiz11>>

Range(s) == {s[i] : i \in DOMAIN s}

RECURSIVE SumSeq(_)
SumSeq(s) == IF s = <<>> THEN 0 ELSE Head(s) + SumSeq(Tail(s))

----------------------------------------------------------------------------
\* Python values and operations used by the cells

\* x < y on sequences of integers, lexicographically
RECURSIVE SeqLess(_, _)
SeqLess(x, y) ==
    IF y = <<>> THEN FALSE
    ELSE IF x = <<>> THEN TRUE
    ELSE IF Head(x) # Head(y) THEN Head(x) < Head(y)
    ELSE SeqLess(Tail(x), Tail(y))

\* s < t on Python strings
StrLess(s, t) == SeqLess(codepoints[s], codepoints[t])

\* (a1, a2) < (b1, b2) on Python tuples of two strings
PairLess(p, q) ==
    IF p[1] # q[1] THEN StrLess(p[1], q[1]) ELSE StrLess(p[2], q[2])

\* sorted(list(S)) for a set S of characters
RECURSIVE SortedCharsDescending(_)
SortedCharsDescending(S) ==
    IF S = {} THEN <<>>
    ELSE LET m == CHOOSE c \in S : \A d \in S \ {c} : StrLess(d, c)
         IN  <<m>> \o SortedCharsDescending(S \ {m})

RECURSIVE SortedChars(_)
SortedChars(S) ==
    IF S = {} THEN <<>>
    ELSE LET m == CHOOSE c \in S : \A d \in S \ {c} : StrLess(c, d)
         IN  <<m>> \o SortedChars(S \ {m})

\* set(''.join(words))
JoinedChars(ws) == UNION {Range(ws[i]) : i \in DOMAIN ws}

\* ''.join(ws)
RECURSIVE Joined(_)
Joined(ws) == IF ws = <<>> THEN <<>> ELSE Head(ws) \o Joined(Tail(ws))

\* the characters of a string in the order of their first appearance
RECURSIVE FirstAppearance(_)
FirstAppearance(str) ==
    IF str = <<>> THEN <<>>
    ELSE LET front == FirstAppearance(SubSeq(str, 1, Len(str) - 1))
             last == str[Len(str)]
         IN  IF last \in Range(front) THEN front ELSE Append(front, last)

\* chars = sorted(list(set(''.join(words))))
DeriveCharsUnsorted(ws) == FirstAppearance(Joined(ws))

DeriveChars(ws) == SortedChars(JoinedChars(ws))

\* d.keys() of a dict
DictKeys(d) == {d[i][1] : i \in DOMAIN d}

\* d.get(key, default)
DictGet(d, key, default) ==
    IF key \in DictKeys(d)
    THEN LET i == CHOOSE j \in DOMAIN d : d[j][1] = key IN d[i][2]
    ELSE default

\* d[key] = value: an existing key keeps its place, a new key goes last
DictSet(d, key, value) ==
    IF key \in DictKeys(d)
    THEN [i \in DOMAIN d |-> IF d[i][1] = key THEN <<key, value>> ELSE d[i]]
    ELSE Append(d, <<key, value>>)

\* chs = ['<S>'] + list(w) + ['<E>']
chsSparseOneToken(w) == <<"<S>">> \o w \o <<"<S>">>

chsSparse(w) == <<"<S>">> \o w \o <<"<E>">>

\* b[bigram] = b.get(bigram, 0) + 1
CountBigramNoGet(d, bigram) == DictSet(d, bigram, 1)

CountBigramFromMinusOne(d, bigram) ==
    DictSet(d, bigram, DictGet(d, bigram, -1) + 1)

CountBigram(d, bigram) == DictSet(d, bigram, DictGet(d, bigram, 0) + 1)

\* The stable sort behind sorted(items, key=lambda kv: -kv[1]): kv goes
\* behind every entry whose key is not greater than its own.
RECURSIVE InsertByKeyUnstable(_, _)
InsertByKeyUnstable(s, kv) ==
    IF s = <<>> THEN <<kv>>
    ELSE IF -Head(s)[2] < -kv[2]
         THEN <<Head(s)>> \o InsertByKeyUnstable(Tail(s), kv)
         ELSE <<kv>> \o s

RECURSIVE InsertByKey(_, _)
InsertByKey(s, kv) ==
    IF s = <<>> THEN <<kv>>
    ELSE IF -Head(s)[2] <= -kv[2]
         THEN <<Head(s)>> \o InsertByKey(Tail(s), kv)
         ELSE <<kv>> \o s

RECURSIVE SortedByCount(_)
SortedByCount(items) ==
    IF items = <<>> THEN <<>>
    ELSE InsertByKey(SortedByCount(SubSeq(items, 1, Len(items) - 1)),
                     items[Len(items)])

\* s[:n] for n >= 0
SliceOneShort(s, n) == SubSeq(s, 1, IF n < Len(s) THEN n - 1 ELSE Len(s))

Slice(s, n) == SubSeq(s, 1, IF n < Len(s) THEN n ELSE Len(s))

----------------------------------------------------------------------------
\* The 2D array cell's helpers

\* chars = ['.'] + chars
WithTokenLast(cs) == cs \o <<".">>

WithToken(cs) == <<".">> \o cs

\* stoi = {s: i for i, s in enumerate(chars)}: a later item of the same key
\* overwrites the earlier one
MakeStoi(cs) ==
    [s \in Range(cs) |->
        CHOOSE i \in 0..(Len(cs) - 1) :
            cs[i + 1] = s /\ \A j \in 0..(Len(cs) - 1) : cs[j + 1] = s => j <= i]

\* Python objects kept in itos carry their type, as the comprehension decides
\* which of the two is the key
PyStr(s) == <<"str", s>>
PyInt(i) == <<"int", i>>

\* itos = {i: s for i, s in stoi.items()}: items() yields (key, value), so
\* the name i is bound to the symbol and the name s to its index
MakeItos(st) == [key \in {PyStr(s) : s \in DOMAIN st} |-> PyInt(st[key[2]])]

\* N = np.zeros((n, n), dtype=int)
Ones(n) == [i \in 0..(n - 1) |-> [j \in 0..(n - 1) |-> 1]]

Zeros(n) == [i \in 0..(n - 1) |-> [j \in 0..(n - 1) |-> 0]]

\* chs = ['.'] + list(w) + ['.']
chsDense(w) == <<".">> \o w \o <<".">>

\* N[ix1, ix2] += 1
IncrCellTransposed(M, ix1, ix2) == [M EXCEPT ![ix2][ix1] = @ + 1]

IncrCellSetOne(M, ix1, ix2) == [M EXCEPT ![ix1][ix2] = 1]

IncrCell(M, ix1, ix2) == [M EXCEPT ![ix1][ix2] = @ + 1]

----------------------------------------------------------------------------
\* The loops of the two cells run to their end on a list of words

\* for ch1, ch2 in zip(chs, chs[1:]): b[bigram] = b.get(bigram, 0) + 1,
\* from the pair at place i on
RECURSIVE CountPairsSparse(_, _, _)
CountPairsSparse(d, chs, i) ==
    IF i >= Len(chs) THEN d
    ELSE CountPairsSparse(CountBigram(d, <<chs[i], chs[i + 1]>>), chs, i + 1)

\* b = {}; for w in words: ...
RECURSIVE SparseCount(_)
SparseCount(ws) ==
    IF ws = <<>> THEN <<>>
    ELSE CountPairsSparse(SparseCount(SubSeq(ws, 1, Len(ws) - 1)),
                          chsSparse(ws[Len(ws)]), 1)

\* for ch1, ch2 in zip(chs, chs[1:]): N[stoi[ch1], stoi[ch2]] += 1, from the
\* pair at place i on, every symbol being a key of st
RECURSIVE CountPairsDense(_, _, _, _)
CountPairsDense(M, st, chs, i) ==
    IF i >= Len(chs) THEN M
    ELSE CountPairsDense(IncrCell(M, st[chs[i]], st[chs[i + 1]]), st, chs, i + 1)

\* N = np.zeros((n, n), dtype=int); for w in words: ...
RECURSIVE DenseCount(_, _, _)
DenseCount(ws, st, n) ==
    IF ws = <<>> THEN Zeros(n)
    ELSE CountPairsDense(DenseCount(SubSeq(ws, 1, Len(ws) - 1), st, n), st,
                         chsDense(ws[Len(ws)]), 1)

\* the whole 2D array cell: the N it ends with when words is ws
DenseCell(ws) ==
    LET cs == WithToken(DeriveChars(ws))
    IN  DenseCount(ws, MakeStoi(cs), Len(cs))

----------------------------------------------------------------------------
\* The cells, one action per step

\* words = f.read().splitlines(): every list of at most n lines that have at
\* most c characters together
WordSet(c) == UNION {[1..n -> Alphabet] : n \in 0..c}

RECURSIVE CorporaWithin(_, _)
CorporaWithin(n, c) ==
    IF n = 0 THEN {<<>>}
    ELSE {<<>>} \cup
         UNION {{<<w>> \o rest : rest \in CorporaWithin(n - 1, c - Len(w))} :
                    w \in WordSet(c)}

Corpora == CorporaWithin(MaxWords, MaxChars)

\* no generator has been called
NotCalled == [pc |-> "not called"]

Init ==
    /\ b_runs = <<>>
    /\ batchify = NotCalled
    /\ countdown = NotCalled
    /\ count_up_to = NotCalled
    /\ cells_run = <<>>
    /\ safe_divide = NotCalled
    /\ gen = NotCalled
    /\ quiz11 = NotCalled
    /\ words \in Corpora
    /\ pc = "inspect"
    /\ wi = 1
    /\ ci = 1
    /\ b = <<>>
    /\ sorted_bigrams = <<>>
    /\ top = <<>>
    /\ k = 0
    /\ chars = <<>>
    /\ stoi = <<>>
    /\ itos = <<>>
    /\ N = <<>>

\* The prints that inspect the data: min() of no lengths raises ValueError.
\* Otherwise b = {} and the loop over the words starts.
InspectKeepsTable ==
    /\ pc = "inspect"
    /\ pc' = IF words = <<>> THEN "ValueError" ELSE "dict_loop"
    /\ b' = b
    /\ wi' = 1
    /\ ci' = 1
    /\ UNCHANGED <<words, sorted_bigrams, top, k, chars, stoi, itos, N>>
    /\ UNCHANGED others

Inspect ==
    /\ pc = "inspect"
    /\ pc' = IF words = <<>> THEN "ValueError" ELSE "dict_loop"
    /\ b' = IF words = <<>> THEN b ELSE <<>>
    /\ wi' = 1
    /\ ci' = 1
    /\ UNCHANGED <<words, sorted_bigrams, top, k, chars, stoi, itos, N>>
    /\ UNCHANGED others

\* One iteration of the inner loop of the dictionary cell
DictStep ==
    /\ pc = "dict_loop"
    /\ LET chs == chsSparse(words[wi])
       IN  /\ b' = CountBigram(b, <<chs[ci], chs[ci + 1]>>)
           /\ IF ci + 1 < Len(chs)
              THEN /\ ci' = ci + 1
                   /\ wi' = wi
                   /\ pc' = pc
              ELSE /\ ci' = 1
                   /\ wi' = wi + 1
                   /\ pc' = IF wi < Len(words) THEN pc ELSE "dict_sort"
    /\ UNCHANGED <<words, sorted_bigrams, top, k, chars, stoi, itos, N>>
    /\ UNCHANGED others

\* sorted_bigrams = sorted(b.items(), key=lambda kv: -kv[1])
DictSort ==
    /\ pc = "dict_sort"
    /\ sorted_bigrams' = SortedByCount(b)
    /\ pc' = "dict_print"
    /\ UNCHANGED <<words, wi, ci, b, top, k, chars, stoi, itos, N>>
    /\ UNCHANGED others

\* print(..., sorted_bigrams[:10])
DictPrint ==
    /\ pc = "dict_print"
    /\ k' = TopK
    /\ top' = Slice(sorted_bigrams, k')
    /\ pc' = "dense_init"
    /\ UNCHANGED <<words, wi, ci, b, sorted_bigrams, chars, stoi, itos, N>>
    /\ UNCHANGED others

\* The same statement with its slice bound left open: sorted_bigrams[:n] for
\* every n from 0 up to the bound of the cell
DictPrintTop ==
    /\ pc = "dict_print"
    /\ \E n \in 0..TopK :
        /\ k' = n
        /\ top' = Slice(sorted_bigrams, n)
    /\ pc' = "printed"
    /\ UNCHANGED <<words, wi, ci, b, sorted_bigrams, chars, stoi, itos, N>>
    /\ UNCHANGED others

\* The 2D array cell up to its loop; the cell is run on its own, after the
\* dictionary cell has ended one way or the other
DenseInitKeepsMatrix ==
    /\ pc \in {"dense_init", "ValueError"}
    /\ chars' = WithToken(DeriveChars(words))
    /\ stoi' = MakeStoi(chars')
    /\ itos' = MakeItos(stoi')
    /\ N' = IF Cardinality(DOMAIN N) = Len(chars') THEN N ELSE Zeros(Len(chars'))
    /\ wi' = 1
    /\ ci' = 1
    /\ pc' = IF words = <<>> THEN "done" ELSE "dense_loop"
    /\ UNCHANGED <<words, b, sorted_bigrams, top, k>>
    /\ UNCHANGED others

DenseInit ==
    /\ pc \in {"dense_init", "ValueError"}
    /\ chars' = WithToken(DeriveChars(words))
    /\ stoi' = MakeStoi(chars')
    /\ itos' = MakeItos(stoi')
    /\ N' = Zeros(Len(chars'))
    /\ wi' = 1
    /\ ci' = 1
    /\ pc' = IF words = <<>> THEN "done" ELSE "dense_loop"
    /\ UNCHANGED <<words, b, sorted_bigrams, top, k>>
    /\ UNCHANGED others

\* One iteration of the inner loop of the 2D array cell
DenseStepGetDefault ==
    /\ pc = "dense_loop"
    /\ LET chs == chsDense(words[wi])
           ix1 == IF chs[ci] \in DOMAIN stoi THEN stoi[chs[ci]] ELSE 0
           ix2 == IF chs[ci + 1] \in DOMAIN stoi THEN stoi[chs[ci + 1]] ELSE 0
       IN  /\ N' = IncrCell(N, ix1, ix2)
           /\ IF ci + 1 < Len(chs)
              THEN /\ ci' = ci + 1
                   /\ wi' = wi
                   /\ pc' = pc
              ELSE /\ ci' = 1
                   /\ wi' = wi + 1
                   /\ pc' = IF wi < Len(words) THEN pc ELSE "done"
    /\ UNCHANGED <<words, b, sorted_bigrams, top, k, chars, stoi, itos>>
    /\ UNCHANGED others

DenseStep ==
    /\ pc = "dense_loop"
    /\ LET chs == chsDense(words[wi])
           ch1 == chs[ci]
           ch2 == chs[ci + 1]
       IN  IF ch1 \notin DOMAIN stoi \/ ch2 \notin DOMAIN stoi
           THEN \* stoi[ch1] or stoi[ch2] raises KeyError
                /\ pc' = "KeyError"
                /\ UNCHANGED <<N, wi, ci>>
           ELSE /\ N' = IncrCell(N, stoi[ch1], stoi[ch2])
                /\ IF ci + 1 < Len(chs)
                   THEN /\ ci' = ci + 1
                        /\ wi' = wi
                        /\ pc' = pc
                   ELSE /\ ci' = 1
                        /\ wi' = wi + 1
                        /\ pc' = IF wi < Len(words) THEN pc ELSE "done"
    /\ UNCHANGED <<words, b, sorted_bigrams, top, k, chars, stoi, itos>>
    /\ UNCHANGED others

Next ==
    \/ Inspect
    \/ DictStep
    \/ DictSort
    \/ DictPrint
    \/ DenseInit
    \/ DenseStep

Spec == Init /\ [][Next]_vars

\* The dictionary cell alone, ranking and printing the top n for every n
NextTop ==
    \/ Inspect
    \/ DictStep
    \/ DictSort
    \/ DictPrintTop

SpecTop == Init /\ [][NextTop]_vars

\* The 2D array cell as the builder of a matrix over an alphabet it is handed:
\* lines 732 to 747 with the sorted characters of line 731 given from outside
DenseInitSupplied ==
    /\ pc = "dense_init"
    /\ \E given \in SUBSET Alphabet :
           chars' = WithToken(SortedChars(given))
    /\ stoi' = MakeStoi(chars')
    /\ itos' = MakeItos(stoi')
    /\ N' = Zeros(Len(chars'))
    /\ wi' = 1
    /\ ci' = 1
    /\ pc' = IF words = <<>> THEN "done" ELSE "dense_loop"
    /\ UNCHANGED <<words, b, sorted_bigrams, top, k>>
    /\ UNCHANGED others

InitDense ==
    /\ b_runs = <<>>
    /\ batchify = NotCalled
    /\ countdown = NotCalled
    /\ count_up_to = NotCalled
    /\ cells_run = <<>>
    /\ safe_divide = NotCalled
    /\ gen = NotCalled
    /\ quiz11 = NotCalled
    /\ words \in Corpora
    /\ pc = "dense_init"
    /\ wi = 1
    /\ ci = 1
    /\ b = <<>>
    /\ sorted_bigrams = <<>>
    /\ top = <<>>
    /\ k = 0
    /\ chars = <<>>
    /\ stoi = <<>>
    /\ itos = <<>>
    /\ N = <<>>

NextDense ==
    \/ DenseInitSupplied
    \/ DenseStep

SpecDense == InitDense /\ [][NextDense]_vars

\* The dictionary cell run again and again on the same names.txt
MaxRuns == 2

RerunDict ==
    /\ pc = "dense_init"
    /\ Len(b_runs) + 1 < MaxRuns
    /\ b_runs' = Append(b_runs, b)
    /\ pc' = "inspect"
    /\ UNCHANGED <<words, wi, ci, b, sorted_bigrams, top, k, chars, stoi, itos, N>>
    /\ UNCHANGED <<batchify, countdown, count_up_to, cells_run, safe_divide, gen, quiz11>>

NextRerun ==
    \/ Inspect
    \/ DictStep
    \/ DictSort
    \/ DictPrint
    \/ RerunDict

SpecRerun == Init /\ [][NextRerun]_vars

----------------------------------------------------------------------------
\* The generator examples. A frame holds the locals of the one call, pc (where
\* the body stands: "created" before the first next(), "suspended" at its
\* yield, "exhausted" after its return) and what the consumers have received.

\* Bounds: the length of data and the batch size, the argument of countdown,
\* the calls of next() on the exhausted countdown, the argument of count_up_to
MaxData == 4
MaxBatch == 3
MaxCountdown == 12
MaxStops == 2
MaxUpTo == 7

\* the bigram cells have not been run
InitGenerators ==
    /\ b_runs = <<>>
    /\ batchify = NotCalled
    /\ countdown = NotCalled
    /\ count_up_to = NotCalled
    /\ cells_run = <<>>
    /\ safe_divide = NotCalled
    /\ gen = NotCalled
    /\ quiz11 = NotCalled
    /\ words = <<>>
    /\ pc = "inspect"
    /\ wi = 1
    /\ ci = 1
    /\ b = <<>>
    /\ sorted_bigrams = <<>>
    /\ top = <<>>
    /\ k = 0
    /\ chars = <<>>
    /\ stoi = <<>>
    /\ itos = <<>>
    /\ N = <<>>

bigram ==
    <<words, pc, wi, ci, b, sorted_bigrams, top, k, chars, stoi, itos, N, b_runs,
      cells_run>>

\* s[lo:hi] for 0 <= lo <= hi
PySliceToEnd(s, lo, hi) == SubSeq(s, lo + 1, Len(s))

PySlice(s, lo, hi) == SubSeq(s, lo + 1, IF hi < Len(s) THEN hi ELSE Len(s))

\* batchify(data, batch_size) is called: nothing of its body runs yet
BatchifyCall ==
    /\ batchify.pc = "not called"
    /\ \E data \in UNION {[1..n -> {0, 1}] : n \in 0..MaxData} :
       \E batch_size \in 1..MaxBatch :
           batchify' = [pc |-> "created", data |-> data, batch_size |-> batch_size,
                        i |-> 0, yielded |-> <<>>]
    /\ UNCHANGED <<bigram, countdown, count_up_to, safe_divide, gen, quiz11>>

\* The for loop of the consumer asks for the next batch: range(0, len(data),
\* batch_size) gives its first or its next i, and either the body yields
\* data[i:i + batch_size] or the range is used up and the generator returns
BatchifyNext ==
    /\ batchify.pc \in {"created", "suspended"}
    /\ LET i == IF batchify.pc = "created" THEN 0
                ELSE batchify.i + batchify.batch_size
       IN  IF i < Len(batchify.data)
           THEN batchify' =
                    [batchify EXCEPT
                        !.pc = "suspended",
                        !.i = i,
                        !.yielded = Append(@, PySlice(batchify.data, i,
                                                      i + batchify.batch_size))]
           ELSE batchify' = [batchify EXCEPT !.pc = "exhausted"]
    /\ UNCHANGED <<bigram, countdown, count_up_to, safe_divide, gen, quiz11>>

NextBatchify ==
    \/ BatchifyCall
    \/ BatchifyNext

SpecBatchify == InitGenerators /\ [][NextBatchify]_vars

\* countdown(n) is called
CountdownCall ==
    /\ countdown.pc = "not called"
    /\ \E n \in (-2)..MaxCountdown :
           countdown' = [pc |-> "created", arg |-> n, n |-> n, yielded |-> <<>>,
                         stops |-> 0]
    /\ UNCHANGED <<bigram, batchify, count_up_to, safe_divide, gen, quiz11>>

\* next() on the generator: the body runs from where it stands (after its
\* yield: n -= 1) to the test n > 0, and yields n or returns; on the
\* exhausted generator next() raises StopIteration again
CountdownNextYieldsZero ==
    /\ countdown.pc \in {"created", "suspended", "exhausted"}
    /\ IF countdown.pc = "exhausted"
       THEN /\ countdown.stops < MaxStops
            /\ countdown' = [countdown EXCEPT !.stops = @ + 1]
       ELSE LET n == IF countdown.pc = "created" THEN countdown.n
                     ELSE countdown.n - 1
            IN  IF n >= 0
                THEN countdown' = [countdown EXCEPT !.pc = "suspended", !.n = n,
                                                    !.yielded = Append(@, n)]
                ELSE countdown' = [countdown EXCEPT !.pc = "exhausted", !.n = n,
                                                    !.stops = 1]
    /\ UNCHANGED <<bigram, batchify, count_up_to, safe_divide, gen, quiz11>>

CountdownNext ==
    /\ countdown.pc \in {"created", "suspended", "exhausted"}
    /\ IF countdown.pc = "exhausted"
       THEN /\ countdown.stops < MaxStops
            /\ countdown' = [countdown EXCEPT !.stops = @ + 1]
       ELSE LET n == IF countdown.pc = "created" THEN countdown.n
                     ELSE countdown.n - 1
            IN  IF n > 0
                THEN countdown' = [countdown EXCEPT !.pc = "suspended", !.n = n,
                                                    !.yielded = Append(@, n)]
                ELSE countdown' = [countdown EXCEPT !.pc = "exhausted", !.n = n,
                                                    !.stops = 1]
    /\ UNCHANGED <<bigram, batchify, count_up_to, safe_divide, gen, quiz11>>

NextCountdown ==
    \/ CountdownCall
    \/ CountdownNext

SpecCountdown == InitGenerators /\ [][NextCountdown]_vars

\* gen = count_up_to(n); the consumer stands at its next(gen) calls
CountUpToCall ==
    /\ count_up_to.pc = "not called"
    /\ \E n \in 0..MaxUpTo :
           count_up_to' = [pc |-> "created", n |-> n, i |-> 0, consumer |-> "next",
                           by_next |-> <<>>, by_for |-> <<>>]
    /\ UNCHANGED <<bigram, batchify, countdown, safe_divide, gen, quiz11>>

\* the body run from where it stands to its next yield or to its end: the
\* value of i it reaches, and whether it yields
CountUpToResumedAt == IF count_up_to.pc = "created" THEN 1 ELSE count_up_to.i + 1
CountUpToYields == CountUpToResumedAt <= count_up_to.n

\* next(gen) by hand: the value yielded, or StopIteration reaches the caller
CountUpToNext ==
    /\ count_up_to.pc \in {"created", "suspended"}
    /\ count_up_to.consumer = "next"
    /\ IF CountUpToYields
       THEN count_up_to' =
                [count_up_to EXCEPT !.pc = "suspended", !.i = CountUpToResumedAt,
                                    !.by_next = Append(@, CountUpToResumedAt)]
       ELSE count_up_to' =
                [count_up_to EXCEPT !.pc = "exhausted", !.i = CountUpToResumedAt,
                                    !.consumer = "StopIteration"]
    /\ UNCHANGED <<bigram, batchify, countdown, safe_divide, gen, quiz11>>

\* for num in gen: the loop takes the same generator object
CountUpToFor ==
    /\ count_up_to.pc \in {"created", "suspended"}
    /\ count_up_to.consumer = "next"
    /\ count_up_to' = [count_up_to EXCEPT !.consumer = "for"]
    /\ UNCHANGED <<bigram, batchify, countdown, safe_divide, gen, quiz11>>

\* one round of the for loop: its next(gen) gives num, or ends the loop
CountUpToForStepRestarts ==
    /\ count_up_to.pc \in {"created", "suspended"}
    /\ count_up_to.consumer = "for"
    /\ LET at == IF count_up_to.by_for = <<>> THEN 1 ELSE count_up_to.i + 1
       IN  IF at <= count_up_to.n
           THEN count_up_to' =
                    [count_up_to EXCEPT !.pc = "suspended", !.i = at,
                                        !.by_for = Append(@, at)]
           ELSE count_up_to' =
                    [count_up_to EXCEPT !.pc = "exhausted", !.i = at,
                                        !.consumer = "done"]
    /\ UNCHANGED <<bigram, batchify, countdown, safe_divide, gen, quiz11>>

CountUpToForStep ==
    /\ count_up_to.pc \in {"created", "suspended"}
    /\ count_up_to.consumer = "for"
    /\ IF CountUpToYields
       THEN count_up_to' =
                [count_up_to EXCEPT !.pc = "suspended", !.i = CountUpToResumedAt,
                                    !.by_for = Append(@, CountUpToResumedAt)]
       ELSE count_up_to' =
                [count_up_to EXCEPT !.pc = "exhausted", !.i = CountUpToResumedAt,
                                    !.consumer = "done"]
    /\ UNCHANGED <<bigram, batchify, countdown, safe_divide, gen, quiz11>>

NextCountUpTo ==
    \/ CountUpToCall
    \/ CountUpToNext
    \/ CountUpToFor
    \/ CountUpToForStep

SpecCountUpTo == InitGenerators /\ [][NextCountUpTo]_vars

----------------------------------------------------------------------------
\* The 2D array cell among the other cells of the notebook

MaxCells == 2

\* words = ["andrej", "karpathy", "zero", "hero"] of the earlier cell, with
\* the characters of the alphabet in place of its letters
EarlierWords == <<(<<"a", "b">>), (<<"b">>)>>

\* The earlier cell that binds words and chars (and char_to_index, a name the
\* 2D array cell does not read) is run
EarlierCell ==
    /\ pc \in {"dense_init", "done"}
    /\ Len(cells_run) < MaxCells
    /\ cells_run' = Append(cells_run, [cell |-> "chars", words |-> EarlierWords])
    /\ words' = EarlierWords
    /\ chars' = DeriveChars(words')
    /\ pc' = "dense_init"
    /\ UNCHANGED <<wi, ci, b, sorted_bigrams, top, k, stoi, itos, N>>
    /\ UNCHANGED <<b_runs, batchify, countdown, count_up_to, safe_divide, gen, quiz11>>

\* The 2D array cell has run to its end and is run once more
RerunDense ==
    /\ pc = "done"
    /\ Len(cells_run) < MaxCells
    /\ cells_run' = Append(cells_run, [cell |-> "2D array", words |-> words])
    /\ pc' = "dense_init"
    /\ UNCHANGED <<words, wi, ci, b, sorted_bigrams, top, k, chars, stoi, itos, N>>
    /\ UNCHANGED <<b_runs, batchify, countdown, count_up_to, safe_divide, gen, quiz11>>

NextOrder ==
    \/ EarlierCell
    \/ RerunDense
    \/ DenseInit
    \/ DenseStep

SpecOrder == InitDense /\ [][NextOrder]_vars

----------------------------------------------------------------------------
\* The quiz of the Generators section: g = gen(); print(next(g)) twice, and
\* what further calls of next(g) would do

\* g = gen(): the generator object is created, nothing of its body runs
GenCallRunsBody ==
    /\ gen.pc = "not called"
    /\ gen' = [pc |-> "created", out |-> <<"Start">>, nexts |-> 0, stops |-> 0]
    /\ UNCHANGED <<bigram, batchify, countdown, count_up_to, safe_divide, quiz11>>

GenCall ==
    /\ gen.pc = "not called"
    /\ gen' = [pc |-> "created", out |-> <<>>, nexts |-> 0, stops |-> 0]
    /\ UNCHANGED <<bigram, batchify, countdown, count_up_to, safe_divide, quiz11>>

\* print(next(g)): the body runs from where it stopped to its next yield,
\* printing on its way, and the value it yields is printed; at the end of the
\* body "End" is printed and StopIteration is raised, so nothing else is
\* printed. A generator that has ended raises StopIteration at once.
GenNext ==
    /\ gen.pc \in {"created", "yield 1", "yield 2", "exhausted"}
    /\ gen.pc = "exhausted" => gen.stops < MaxStops
    /\ gen' =
           CASE gen.pc = "created" ->
                    [gen EXCEPT !.pc = "yield 1", !.nexts = @ + 1,
                                !.out = @ \o <<"Start", "1">>]
             [] gen.pc = "yield 1" ->
                    [gen EXCEPT !.pc = "yield 2", !.nexts = @ + 1,
                                !.out = @ \o <<"Middle", "2">>]
             [] gen.pc = "yield 2" ->
                    [gen EXCEPT !.pc = "exhausted", !.nexts = @ + 1,
                                !.stops = @ + 1, !.out = Append(@, "End")]
             [] gen.pc = "exhausted" ->
                    [gen EXCEPT !.nexts = @ + 1, !.stops = @ + 1]
    /\ UNCHANGED <<bigram, batchify, countdown, count_up_to, safe_divide, quiz11>>

\* the generator objects of the Generators section, each with its consumer
NextGenerators ==
    \/ GenCall
    \/ GenNext
    \/ CountdownCall
    \/ CountdownNext

SpecGenerators == InitGenerators /\ [][NextGenerators]_vars

----------------------------------------------------------------------------
\* The error handling example: safe_divide(a, b)

MaxOperand == 5

\* the absolute value and the greatest common divisor, to keep a quotient in
\* lowest terms
Abs(x) == IF x < 0 THEN -x ELSE x

RECURSIVE GCD(_, _)
GCD(x, y) == IF y = 0 THEN x ELSE GCD(y, x % y)

None == [kind |-> "None"]

Unbound == [kind |-> "unbound"]

\* a / b for b # 0: true division gives the quotient as a float, kept here as
\* the fraction in lowest terms with a positive denominator
TrueDivide(x, y) ==
    LET g == GCD(Abs(x), Abs(y))
        sign == IF y < 0 THEN -1 ELSE 1
    IN  [kind |-> "float", num |-> sign * (x \div g), den |-> sign * (y \div g)]

\* the exception classes the except clause of safe_divide names
HandledNothing == {}

Handled == {"ZeroDivisionError"}

\* safe_divide(a, b) is called
SafeDivideCall ==
    /\ safe_divide.pc = "not called"
    /\ \E x \in -MaxOperand..MaxOperand : \E y \in -MaxOperand..MaxOperand :
           safe_divide' = [pc |-> "try", a |-> x, b |-> y, result |-> Unbound,
                           pending |-> "none", out |-> <<>>, value |-> Unbound]
    /\ UNCHANGED <<bigram, batchify, countdown, count_up_to, gen, quiz11>>

\* try: result = a / b. Division by zero raises ZeroDivisionError, which goes
\* to the except clause if that names it and otherwise stays pending while
\* the finally clause runs
SafeDivideTry ==
    /\ safe_divide.pc = "try"
    /\ IF safe_divide.b = 0
       THEN IF "ZeroDivisionError" \in Handled
            THEN safe_divide' = [safe_divide EXCEPT !.pc = "except"]
            ELSE safe_divide' = [safe_divide EXCEPT !.pc = "finally",
                                                    !.pending = "ZeroDivisionError"]
       ELSE safe_divide' =
                [safe_divide EXCEPT !.pc = "else",
                                    !.result = TrueDivide(safe_divide.a, safe_divide.b)]
    /\ UNCHANGED <<bigram, batchify, countdown, count_up_to, gen, quiz11>>

\* except ZeroDivisionError: print the error message; result = None
SafeDivideExcept ==
    /\ safe_divide.pc = "except"
    /\ safe_divide' =
           [safe_divide EXCEPT !.pc = "finally",
                               !.out = Append(@, "Error: cannot divide by zero!"),
                               !.result = None]
    /\ UNCHANGED <<bigram, batchify, countdown, count_up_to, gen, quiz11>>

\* else: print the success message
SafeDivideElse ==
    /\ safe_divide.pc = "else"
    /\ safe_divide' =
           [safe_divide EXCEPT !.pc = "finally",
                               !.out = Append(@, "Division succeeded.")]
    /\ UNCHANGED <<bigram, batchify, countdown, count_up_to, gen, quiz11>>

\* finally: print the closing message; an exception still pending then leaves
\* the function
SafeDivideFinally ==
    /\ safe_divide.pc = "finally"
    /\ safe_divide' =
           [safe_divide EXCEPT
               !.pc = IF safe_divide.pending = "none" THEN "return" ELSE "raised",
               !.out = Append(@, "Execution of safe_divide complete.")]
    /\ UNCHANGED <<bigram, batchify, countdown, count_up_to, gen, quiz11>>

\* return result
SafeDivideReturn ==
    /\ safe_divide.pc = "return"
    /\ safe_divide' = [safe_divide EXCEPT !.pc = "returned",
                                          !.value = safe_divide.result]
    /\ UNCHANGED <<bigram, batchify, countdown, count_up_to, gen, quiz11>>

NextSafeDivide ==
    \/ SafeDivideCall
    \/ SafeDivideTry
    \/ SafeDivideExcept
    \/ SafeDivideElse
    \/ SafeDivideFinally
    \/ SafeDivideReturn

SpecSafeDivide == InitGenerators /\ [][NextSafeDivide]_vars

----------------------------------------------------------------------------
\* Quiz 11: print(f'Loss: {0.456:.1f}'), for the literals 0.000 to 0.999

MaxThousandths == 999

\* The literals n/1000 that lie midway between two tenths and whose nearest
\* double is greater, resp. smaller, than the literal (0.25 and 0.75 are
\* doubles themselves)
DoubleAbove == {50, 450, 550, 650, 1050}

DoubleBelow == {150, 350, 850, 950}

\* format(x, '.1f') in tenths, x being the double nearest to n/1000: the
\* exact value of x is rounded to the nearest tenth, an exact tie to the even
\* digit
FormatTenths(n) ==
    LET q == n \div 100
        rem == n % 100
        up == \/ rem > 50
              \/ rem = 50 /\ n \in DoubleAbove
              \/ rem = 50 /\ n \notin DoubleAbove \cup DoubleBelow /\ q % 2 = 1
    IN  IF up THEN q + 1 ELSE q

\* the digits of format(x, '.1f')
FormatOneDecimal(n) ==
    LET t == FormatTenths(n)
    IN  ToString(t \div 10) \o "." \o ToString(t % 10)

\* the literal of the f-string is evaluated
Quiz11Literal ==
    /\ quiz11.pc = "not called"
    /\ \E n \in 0..MaxThousandths :
           quiz11' = [pc |-> "literal", thousandths |-> n, out |-> ""]
    /\ UNCHANGED <<bigram, batchify, countdown, count_up_to, safe_divide, gen>>

\* print(f'Loss: {x:.1f}')
Quiz11Print ==
    /\ quiz11.pc = "literal"
    /\ quiz11' = [quiz11 EXCEPT
                     !.pc = "printed",
                     !.out = "Loss: " \o FormatOneDecimal(quiz11.thousandths)]
    /\ UNCHANGED <<bigram, batchify, countdown, count_up_to, safe_divide, gen>>

NextQuiz11 ==
    \/ Quiz11Literal
    \/ Quiz11Print

SpecQuiz11 == InitGenerators /\ [][NextQuiz11]_vars

----------------------------------------------------------------------------
\* Vocabulary of the properties

Symbols == Alphabet \cup {"<S>", "<E>"}

\* the dictionary cell's loop has run to its end
SparseDone ==
    /\ words # <<>>
    /\ pc \in {"dict_sort", "dict_print", "printed", "dense_init", "dense_loop", "done"}

\* the ranking has been computed
Ranked ==
    words # <<>> /\ pc \in {"dict_print", "printed", "dense_init", "dense_loop", "done"}

\* the top entries have been printed
Printed == words # <<>> /\ pc \in {"printed", "dense_init", "dense_loop", "done"}

\* chars, stoi, itos and N have been built
DenseBuilt == pc \in {"dense_loop", "done"}

\* both cells have run to their end on a corpus of at least one word
BothDone == words # <<>> /\ pc = "done"

NoTokenInWords == \A i \in DOMAIN words : "." \notin Range(words[i])

\* C, the number of characters of the corpus, and W, its number of words
TotalChars == SumSeq([i \in DOMAIN words |-> Len(words[i])])
TotalWords == Len(words)

\* the places of the corpus at which a pair starts, every word being read
\* with one symbol in front and one behind: (word, position in that reading)
Places ==
    {pos \in (DOMAIN words) \X (1..(MaxChars + 1)) : pos[2] <= Len(words[pos[1]]) + 1}

\* the pair at a place, word w being read as [first] + w + [last]
PairAt(pos, first, last) ==
    LET seq == <<first>> \o words[pos[1]] \o <<last>>
    IN  <<seq[pos[2]], seq[pos[2] + 1]>>

\* number of places at which prev is immediately followed by next
Occurrences(prev, next, first, last) ==
    Cardinality({pos \in Places : PairAt(pos, first, last) = <<prev, next>>})

\* sum(b.values())
SumCounts(d) == SumSeq([i \in DOMAIN d |-> d[i][2]])

\* N.sum()
SumMatrix(M) ==
    LET n == Cardinality(DOMAIN M)
    IN  SumSeq([i \in 1..n |-> SumSeq([j \in 1..n |-> M[i - 1][j - 1]])])

\* the dict holds a key for exactly the pairs that occur, each once, with the
\* number of its occurrences as count
TableIs(d, first, last) ==
    /\ Cardinality(DictKeys(d)) = Len(d)
    /\ \A pos \in Places : PairAt(pos, first, last) \in DictKeys(d)
    /\ \A i \in DOMAIN d :
           /\ d[i][2] >= 1
           /\ d[i][2] = Occurrences(d[i][1][1], d[i][1][2], first, last)

----------------------------------------------------------------------------
\* C1 (as amended): once the dictionary cell's loop has ended, the count b
\* stores for every ordered pair (prev, next) is the number of positions at
\* which prev is immediately followed by next in ['<S>'] + characters(word) +
\* ['<E>'] over all words, the start marker '<S>' and the end marker '<E>'
\* being two different symbols; no other key is present.
C1_SparseCountsTwoMarkers ==
    SparseDone => TableIs(b, "<S>", "<E>")

\* C1 as stated: the same with one and the same boundary symbol at both ends
\* of each word, whichever symbol that is.
C1_SparseCountsOneBoundary ==
    SparseDone =>
        \E boundary \in Symbols \cup {"#"} : TableIs(b, boundary, boundary)

\* the corpus ["ab", "ba"] counted: six pairs, each once
C1_Witness ==
    /\ SparseDone
    /\ words = <<(<<"a", "b">>), (<<"b", "a">>)>>
    /\ Len(b) = 6
    /\ DictGet(b, <<"<S>", "a">>, 0) = 1
    /\ DictGet(b, <<"a", "<E>">>, 0) = 1

\* C2: for a non-empty word list of W words and C characters, the counts of
\* the finished sparse table sum to C + W, and so do the cells of the finished
\* dense matrix.
C2_TotalIsCharsPlusWords ==
    /\ SparseDone => SumCounts(b) = TotalChars + TotalWords
    /\ BothDone => SumMatrix(N) = TotalChars + TotalWords

C2_Witness ==
    /\ BothDone
    /\ TotalWords = 2
    /\ TotalChars = 3
    /\ SumMatrix(N) = 5
    /\ \E i \in DOMAIN b : b[i][2] = 2

\* the symbol of the 2D array cell a symbol of the dictionary cell stands
\* for: both markers are the token '.', a character is itself
AsDenseSymbol(sym) == IF sym \in {"<S>", "<E>"} THEN "." ELSE sym

\* C3 (as amended): for a corpus in which no word contains '.', with '<S>'
\* and '<E>' both read as the token '.', every key (prev, next) of b has
\* b[(prev, next)] = N[stoi[prev], stoi[next]], and every cell of N that no
\* key of b addresses is zero.
C3_CellsAgreeUnderTokenMap ==
    (BothDone /\ NoTokenInWords) =>
        /\ \A i \in DOMAIN b :
               LET prev == AsDenseSymbol(b[i][1][1])
                   next == AsDenseSymbol(b[i][1][2])
               IN  /\ prev \in DOMAIN stoi
                   /\ next \in DOMAIN stoi
                   /\ b[i][2] = N[stoi[prev]][stoi[next]]
        /\ \A r \in DOMAIN N : \A c \in DOMAIN N[r] :
               (\A i \in DOMAIN b :
                    <<stoi[AsDenseSymbol(b[i][1][1])],
                      stoi[AsDenseSymbol(b[i][1][2])]>> # <<r, c>>)
                   => N[r][c] = 0

\* C3 as stated: for every key (prev, next) of b, stoi is defined on prev and
\* on next and b[(prev, next)] = N[stoi[prev], stoi[next]]; every cell of N no
\* key addresses is zero.
C3_CellsAgreeAsKeyed ==
    BothDone =>
        /\ \A i \in DOMAIN b :
               LET prev == b[i][1][1]
                   next == b[i][1][2]
               IN  /\ prev \in DOMAIN stoi
                   /\ next \in DOMAIN stoi
                   /\ b[i][2] = N[stoi[prev]][stoi[next]]
        /\ \A r \in DOMAIN N : \A c \in DOMAIN N[r] :
               (\A i \in DOMAIN b : <<stoi[b[i][1][1]], stoi[b[i][1][2]]>> # <<r, c>>)
                   => N[r][c] = 0

\* ["ab", "a"]: the pair (a, b) is in N above the diagonal only, start and
\* end of the words in row 0 and column 0
C3_Witness ==
    /\ BothDone
    /\ NoTokenInWords
    /\ words = <<(<<"a", "b">>), (<<"a">>)>>
    /\ DictGet(b, <<"<S>", "a">>, 0) = 2
    /\ N[0][1] = 2
    /\ N[1][2] = 1
    /\ N[2][1] = 0

\* C4: for a non-empty word list and the alphabet derived from it, the cells
\* of N sum to what the values of b sum to.
C4_DenseSumIsSparseSum == BothDone => SumMatrix(N) = SumCounts(b)

\* a corpus that hits a cell of N twice
C4_Witness ==
    /\ BothDone
    /\ \E r \in DOMAIN N : \E c \in DOMAIN N[r] : N[r][c] >= 2
    /\ SumCounts(b) >= 4

\* C5: itos is the inverse of stoi: every index i of 0..|alphabet|-1 is a key
\* of itos, itos[i] is the symbol s with stoi[s] = i, and itos[stoi[s]] = s
\* for every symbol s of the alphabet.
C5_ItosInvertsStoi ==
    DenseBuilt =>
        /\ \A i \in 0..(Len(chars) - 1) :
               /\ PyInt(i) \in DOMAIN itos
               /\ \E sym \in DOMAIN stoi : itos[PyInt(i)] = PyStr(sym) /\ stoi[sym] = i
        /\ \A sym \in DOMAIN stoi :
               /\ PyInt(stoi[sym]) \in DOMAIN itos
               /\ itos[PyInt(stoi[sym])] = PyStr(sym)

\* number of words that start with the character c / end with it / are empty
WordsStartingWith(c) ==
    Cardinality({i \in DOMAIN words : words[i] # <<>> /\ words[i][1] = c})
WordsEndingWith(c) ==
    Cardinality({i \in DOMAIN words : words[i] # <<>> /\ words[i][Len(words[i])] = c})
EmptyWords == Cardinality({i \in DOMAIN words : words[i] = <<>>})

\* stoi['.'] = 0, the characters of the words take 1..n in sorted order, and
\* at the end row 0 and column 0 of N are the word-start and word-end counts
TokenIsIndexZero ==
    LET cs == JoinedChars(words) \ {"."}
    IN  /\ stoi["."] = 0
        /\ {stoi[c] : c \in cs} = 1..Cardinality(cs)
        /\ \A c \in cs : \A d \in cs : StrLess(c, d) => stoi[c] < stoi[d]
        /\ BothDone =>
               /\ N[0][0] = EmptyWords
               /\ \A c \in cs : /\ N[0][stoi[c]] = WordsStartingWith(c)
                                /\ N[stoi[c]][0] = WordsEndingWith(c)

\* C6 (as amended): for every corpus in which no word contains the character
\* '.', stoi['.'] = 0 and the characters of the words are mapped to 1..n in
\* their sorted order; row 0 and column 0 of the finished N hold exactly the
\* word-start and word-end transitions.
C6_TokenIndexZeroWithoutTokenInWords ==
    (DenseBuilt /\ NoTokenInWords) => TokenIsIndexZero

\* C6 as stated: the same for every corpus, whatever characters its words are
\* made of.
C6_TokenIndexZeroEveryCorpus == DenseBuilt => TokenIsIndexZero

\* ["ba", "b"]: a -> 1, b -> 2, two words start with b, one ends with it
C6_Witness ==
    /\ BothDone
    /\ NoTokenInWords
    /\ words = <<(<<"b", "a">>), (<<"b">>)>>
    /\ stoi["."] = 0 /\ stoi["a"] = 1 /\ stoi["b"] = 2
    /\ N[0][2] = 2
    /\ N[2][0] = 1

\* chars holds every symbol once, stoi is a bijection from it onto
\* 0..|chars|-1, N is square of side (distinct characters + 1), all zero
\* before the first bigram is counted
AlphabetWellFormed ==
    LET n == Cardinality(JoinedChars(words)) + 1
    IN  /\ \A i \in DOMAIN chars : \A j \in DOMAIN chars : i # j => chars[i] # chars[j]
        /\ "." \notin JoinedChars(words)
        /\ Cardinality(Range(chars)) = n
        /\ DOMAIN stoi = Range(chars)
        /\ {stoi[sym] : sym \in DOMAIN stoi} = 0..(Len(chars) - 1)
        /\ \A x \in DOMAIN stoi : \A y \in DOMAIN stoi : stoi[x] = stoi[y] => x = y
        /\ DOMAIN N = 0..(n - 1)
        /\ \A r \in DOMAIN N : DOMAIN N[r] = 0..(n - 1)
        /\ (pc = "dense_loop" /\ wi = 1 /\ ci = 1) =>
               \A r \in DOMAIN N : \A c \in DOMAIN N[r] : N[r][c] = 0

\* C7 (as amended): for every corpus in which no word contains the character
\* '.', the sequence chars holds each symbol exactly once, stoi is a bijection
\* from it onto 0..|chars|-1, and N is a square matrix of side (distinct
\* characters + 1) whose cells are all zero before counting starts.
C7_AlphabetWellFormedWithoutTokenInWords ==
    (DenseBuilt /\ NoTokenInWords) => AlphabetWellFormed

\* C7 as stated: the same for every corpus.
C7_AlphabetWellFormedEveryCorpus == DenseBuilt => AlphabetWellFormed

\* ["ab"] right after N has been allocated: 3 symbols, 3 x 3 zeros
C7_Witness ==
    /\ pc = "dense_loop" /\ wi = 1 /\ ci = 1
    /\ words = <<(<<"a", "b">>)>>
    /\ chars = <<".", "a", "b">>
    /\ N = Zeros(3)

\* C8: in every state during and after the sparse counting pass, every key of
\* b has an integer count >= 1.
C8_NoZeroCountStored == \A i \in DOMAIN b : b[i][2] \in Int /\ b[i][2] >= 1

\* in the middle of the pass, with a pair counted twice
C8_Witness ==
    /\ pc = "dict_loop"
    /\ Len(b) >= 2
    /\ \E i \in DOMAIN b : b[i][2] = 2

\* place of a key among the items of a dict
PlaceOf(d, key) == CHOOSE j \in DOMAIN d : d[j][1] = key

\* the ranking holds the items of b, counts non-increasing, and tied(p, q)
\* holds of every pair p listed before a pair q of the same count
RankedWithTies(tied(_, _)) ==
    /\ Len(sorted_bigrams) = Len(b)
    /\ Range(sorted_bigrams) = Range(b)
    /\ \A i \in DOMAIN sorted_bigrams : \A j \in DOMAIN sorted_bigrams :
           i < j =>
               /\ sorted_bigrams[i][2] >= sorted_bigrams[j][2]
               /\ sorted_bigrams[i][2] = sorted_bigrams[j][2]
                      => tied(sorted_bigrams[i][1], sorted_bigrams[j][1])

\* C9 (as amended): the ranked sequence lists the (pair, count) entries of the
\* table with counts non-increasing, and any two entries with equal count
\* appear in the order in which their pairs were first put into the table
\* (the iteration order of b).
C9_RankingTiesInInsertionOrder ==
    Ranked =>
        LET tied(p, q) == PlaceOf(b, p) < PlaceOf(b, q)
        IN  RankedWithTies(tied)

\* C9 as stated: counts non-increasing, entries of equal count in ascending
\* lexicographic order of their pairs.
C9_RankingTiesLexicographic ==
    Ranked =>
        LET tied(p, q) == PairLess(p, q)
        IN  RankedWithTies(tied)

\* a ranking that moved an entry forward and keeps a tie against the
\* lexicographic order
C9_Witness ==
    /\ Ranked
    /\ sorted_bigrams # b
    /\ \E i \in DOMAIN sorted_bigrams : \E j \in DOMAIN sorted_bigrams :
           /\ i < j
           /\ sorted_bigrams[i][2] = sorted_bigrams[j][2]
           /\ PairLess(sorted_bigrams[j][1], sorted_bigrams[i][1])

\* C10: for every bound k from 0 to 10 the printed sequence has min(k, number of
\* distinct pairs) entries and is a prefix of the ranking; k = 0 gives the
\* empty sequence and k beyond the table gives all entries.
C10_TopIsPrefixOfRanking ==
    Printed =>
        LET pairs == Cardinality(DictKeys(b))
        IN  /\ Len(top) = IF k <= pairs THEN k ELSE pairs
            /\ \A i \in DOMAIN top : top[i] = sorted_bigrams[i]
            /\ k = 0 => top = <<>>
            /\ k > pairs => top = sorted_bigrams

\* a bound inside the table: some but not all entries are printed
C10_Witness ==
    /\ Printed
    /\ k >= 2
    /\ k < Len(sorted_bigrams)
    /\ Len(top) = k

\* C11 (as amended): with a word list of zero words the dictionary cell ends
\* in the ValueError of min(len(w) for w in words) before b is assigned, so
\* it produces no table and no ranking; the 2D array cell raises nothing and
\* completes with chars = ['.'], stoi = {'.': 0} and N a 1 x 1 matrix of zero.
C11_EmptyCorpusValueErrorThenOneByOne ==
    words = <<>> =>
        /\ pc \in {"inspect", "ValueError", "done"}
        /\ b = <<>>
        /\ sorted_bigrams = <<>>
        /\ pc = "done" =>
               /\ chars = <<".">>
               /\ DOMAIN stoi = {"."}
               /\ stoi["."] = 0
               /\ DOMAIN N = {0}
               /\ DOMAIN N[0] = {0}
               /\ N[0][0] = 0

\* C11 as stated: with a word list of zero words, alphabet derivation, sparse
\* counting and dense counting each end in an error; no alphabet, no table
\* and no matrix is produced.
C11_EmptyCorpusAlwaysFails ==
    words = <<>> =>
        /\ pc \in {"inspect", "ValueError"}
        /\ DOMAIN chars = {}
        /\ DOMAIN N = {}

\* the 2D array cell run to its end on the empty word list
C11_Witness ==
    /\ words = <<>>
    /\ pc = "done"
    /\ Len(chars) = 1
    /\ N[0][0] = 0

\* some word holds a character the alphabet in use lacks
LacksSymbol == \E c \in JoinedChars(words) : c \notin Range(chars)

\* C12: the dense builder run with an alphabet that lacks a character of some
\* word never completes: its loop goes on until it ends in the error of the
\* lookup (KeyError); with an alphabet that holds every character of the
\* words, the one derived from the corpus among them, that error never occurs.
C12_UnknownSymbolEndsInError ==
    /\ pc = "done" => ~LacksSymbol
    /\ pc = "KeyError" => LacksSymbol
    /\ pc = "dense_loop" => wi \in DOMAIN words /\ ci <= Len(words[wi]) + 1
    /\ pc = "KeyError" =>
           chars # <<".">> \o SortedChars({c \in Alphabet :
                                              \E i \in DOMAIN words : c \in Range(words[i])})

\* ["a", "ab"] against the alphabet of "a" alone: the failure comes in the
\* second word
C12_Witness ==
    /\ pc = "KeyError"
    /\ words = <<(<<"a">>), (<<"a", "b">>)>>
    /\ chars = <<".", "a">>
    /\ wi = 2
    /\ ci = 2

\* (word, position) pos comes before q in the order of the loops
PlaceBefore(pos, q) == pos[1] < q[1] \/ (pos[1] = q[1] /\ pos[2] < q[2])

C14_RerunGivesSameTable ==
    (SparseDone /\ b_runs # <<>>) => \A i \in DOMAIN b_runs : b = b_runs[i]

\* the second run ended, on a corpus with a pair counted twice
C14_Witness ==
    /\ SparseDone
    /\ Len(b_runs) = 1
    /\ pc = "dense_init"
    /\ \E i \in DOMAIN b : b[i][2] = 2

\* the words of ws at the places in S, in their order
RECURSIVE Sublist(_, _)
Sublist(ws, S) ==
    IF ws = <<>> THEN <<>>
    ELSE LET front == Sublist(SubSeq(ws, 1, Len(ws) - 1), S)
         IN  IF Len(ws) \in S THEN Append(front, ws[Len(ws)]) ELSE front

\* C15: for every split of the corpus into two sub-lists A and B counted
\* against the index mapping of the whole corpus, N is the element-wise sum
\* of the matrices of A and B, and b has the keys of the tables of A and B
\* together, each with the sum of its two counts.
C15_ShardsAddUp ==
    BothDone =>
        \A S \in SUBSET (DOMAIN words) :
            LET A == Sublist(words, S)
                B == Sublist(words, (DOMAIN words) \ S)
                NA == DenseCount(A, stoi, Len(chars))
                NB == DenseCount(B, stoi, Len(chars))
                bA == SparseCount(A)
                bB == SparseCount(B)
            IN  /\ \A r \in DOMAIN N : \A c \in DOMAIN N[r] :
                       N[r][c] = NA[r][c] + NB[r][c]
                /\ DictKeys(b) = DictKeys(bA) \cup DictKeys(bB)
                /\ \A key \in DictKeys(b) :
                       DictGet(b, key, 0) = DictGet(bA, key, 0) + DictGet(bB, key, 0)

\* ["ab", "a"]: the pair (<S>, a) is counted once in each shard
C15_Witness ==
    /\ BothDone
    /\ words = <<(<<"a", "b">>), (<<"a">>)>>
    /\ DictGet(SparseCount(<<words[1]>>), <<"<S>", "a">>, 0) = 1
    /\ DictGet(SparseCount(<<words[2]>>), <<"<S>", "a">>, 0) = 1
    /\ DictGet(b, <<"<S>", "a">>, 0) = 2
    /\ N[0][1] = 2

\* the orders in which the places 1..n can be visited
WordOrders(n) == {p \in [1..n -> 1..n] : \A i \in 1..n : \E j \in 1..n : p[j] = i}

\* C16: for every permutation of the words of the corpus, the finished sparse
\* table, as a mapping, and the finished dense matrix are those of the
\* original order.
C16_CountsIgnoreWordOrder ==
    BothDone =>
        \A p \in WordOrders(Len(words)) :
            LET ws == [i \in DOMAIN words |-> words[p[i]]]
            IN  /\ Range(SparseCount(ws)) = Range(b)
                /\ DenseCell(ws) = N

\* ["b", "a"]: the keys of b come in another order than for ["a", "b"], the
\* mapping is the same
C16_Witness ==
    /\ BothDone
    /\ words = <<(<<"b">>), (<<"a">>)>>
    /\ SparseCount(<<words[2], words[1]>>) # b
    /\ Range(SparseCount(<<words[2], words[1]>>)) = Range(b)
    /\ N[0][1] = 1 /\ N[0][2] = 1

\* C17: for every non-empty word list the derived character sequence (chars
\* before the token is put in front) is strictly increasing in code-point
\* order and holds a character if and only if it occurs in some word.
C17_DerivedAlphabetSortedAndExact ==
    (DenseBuilt /\ words # <<>>) =>
        LET derived == Tail(chars)
        IN  /\ \A i \in DOMAIN derived : \A j \in DOMAIN derived :
                   i < j => StrLess(derived[i], derived[j])
            /\ \A c \in Alphabet :
                   c \in Range(derived) <=>
                       \E i \in DOMAIN words : \E j \in DOMAIN words[i] : words[i][j] = c

\* ["b.", "a"]: the characters come out as '.', 'a', 'b'
C17_Witness ==
    /\ DenseBuilt
    /\ words = <<(<<"b", ".">>), (<<"a">>)>>
    /\ chars = <<".", ".", "a", "b">>

\* C18: the batches batchify(data, batch_size) yields for batch_size >= 1,
\* put together in order, are data; every batch but the last has batch_size
\* elements, the last has between 1 and batch_size, none is empty; and the
\* generator ends after at most len(data) batches (after none for empty data).
C18_BatchesPartitionData ==
    batchify.pc \in {"created", "suspended", "exhausted"} =>
        LET data == batchify.data
            yielded == batchify.yielded
            seen == Joined(yielded)
        IN  /\ \A j \in DOMAIN yielded :
                   /\ Len(yielded[j]) >= 1
                   /\ Len(yielded[j]) <= batchify.batch_size
                   /\ j < Len(yielded) => Len(yielded[j]) = batchify.batch_size
            /\ Len(seen) <= Len(data)
            /\ \A j \in DOMAIN seen : seen[j] = data[j]
            /\ Len(yielded) <= Len(data)
            /\ batchify.pc = "created" => yielded = <<>>
            /\ batchify.pc = "suspended" => yielded # <<>>
            /\ batchify.pc = "exhausted" => seen = data

\* four elements in batches of three: a full batch and a last one of one
C18_Witness ==
    /\ batchify.pc = "exhausted"
    /\ Len(batchify.data) = 4
    /\ batchify.batch_size = 3
    /\ Len(batchify.yielded) = 2
    /\ Len(batchify.yielded[2]) = 1

\* C19: countdown(n) yields n, n-1, ..., 1 in this order and then ends; for
\* n <= 0 it yields nothing; once exhausted it yields nothing more, however
\* often it is asked.
C19_CountdownYieldsNDownToOne ==
    countdown.pc \in {"created", "suspended", "exhausted"} =>
        LET yielded == countdown.yielded
        IN  /\ \A j \in DOMAIN yielded :
                   yielded[j] = countdown.arg - j + 1 /\ yielded[j] >= 1
            /\ countdown.arg <= 0 => yielded = <<>>
            /\ countdown.pc = "suspended" =>
                   yielded # <<>> /\ yielded[Len(yielded)] = countdown.n
            /\ countdown.pc = "exhausted" =>
                   /\ Len(yielded) = IF countdown.arg > 0 THEN countdown.arg ELSE 0
                   /\ countdown.stops >= 1

\* countdown(5) used up and asked once more
C19_Witness ==
    /\ countdown.pc = "exhausted"
    /\ countdown.arg = 5
    /\ countdown.yielded = <<5, 4, 3, 2, 1>>
    /\ countdown.stops = 2

\* C20: after k calls of next() on one count_up_to(n) object (k <= n) have
\* returned 1..k, a for loop over the same object yields exactly k+1..n:
\* over the life of the object every number of 1..n is yielded once, in
\* increasing order, and nothing after n.
C20_ForLoopContinuesAfterNext ==
    count_up_to.pc \in {"created", "suspended", "exhausted"} =>
        LET by_next == count_up_to.by_next
            by_for == count_up_to.by_for
        IN  /\ \A j \in DOMAIN by_next : by_next[j] = j
            /\ \A j \in DOMAIN by_for : by_for[j] = Len(by_next) + j
            /\ Len(by_next) + Len(by_for) <= count_up_to.n
            /\ count_up_to.consumer = "done" =>
                   Len(by_next) + Len(by_for) = count_up_to.n
            /\ count_up_to.consumer = "StopIteration" =>
                   Len(by_next) = count_up_to.n /\ by_for = <<>>

\* the cell's own run: count_up_to(5), one next(), then the for loop
C20_Witness ==
    /\ count_up_to.pc = "exhausted"
    /\ count_up_to.consumer = "done"
    /\ count_up_to.n = 5
    /\ count_up_to.by_next = <<1>>
    /\ count_up_to.by_for = <<2, 3, 4, 5>>

\* C21: no division-by-zero error of safe_divide(a, b) reaches the caller:
\* for b = 0 it returns None after printing the error message, for b # 0 it
\* returns the quotient after printing the success message, and on both
\* paths "Execution of safe_divide complete." is printed exactly once, after
\* the except/else message and before the value is returned.
C21_SafeDivideNeverRaises ==
    safe_divide.pc # "not called" =>
        LET f == safe_divide
            complete == "Execution of safe_divide complete."
            first == IF f.b = 0 THEN "Error: cannot divide by zero!"
                     ELSE "Division succeeded."
        IN  /\ f.pc # "raised"
            /\ f.pending = "none"
            /\ f.pc \in {"try", "except", "else"} => f.out = <<>>
            /\ f.pc = "finally" => f.out = <<first>>
            /\ f.pc \in {"return", "returned"} => f.out = <<first, complete>>
            /\ f.pc # "returned" => f.value = Unbound
            /\ f.pc = "returned" =>
                   IF f.b = 0 THEN f.value = None
                   ELSE /\ f.value.kind = "float"
                        /\ f.value.num * f.b = f.a * f.value.den

\* the second call of the cell: safe_divide(5, 0) has returned None
C21_Witness ==
    /\ safe_divide.pc = "returned"
    /\ safe_divide.a = 5
    /\ safe_divide.b = 0
    /\ safe_divide.value = None
    /\ safe_divide.out =
           <<"Error: cannot divide by zero!", "Execution of safe_divide complete.">>

\* C22: each step of the dense loop raises the one cell N[stoi[prev],
\* stoi[next]] of the pair it is at by 1 and leaves every other cell, stoi,
\* itos, chars and words as they were; each step of the sparse loop has one
\* key of b, the pair it is at, added with count 1 or raised by 1, and
\* leaves every other key and count as they were.
C22_StepChangesOneCount ==
    [][/\ (pc = "dense_loop" /\ pc' # "KeyError") =>
              LET chs == chsDense(words[wi])
                  r == stoi[chs[ci]]
                  c == stoi[chs[ci + 1]]
              IN  /\ DOMAIN N' = DOMAIN N
                  /\ \A i \in DOMAIN N :
                         /\ DOMAIN N'[i] = DOMAIN N[i]
                         /\ \A j \in DOMAIN N[i] :
                                N'[i][j] = N[i][j] + (IF i = r /\ j = c THEN 1 ELSE 0)
                  /\ UNCHANGED <<stoi, itos, chars, words>>
       /\ pc = "dict_loop" =>
              LET chs == chsSparse(words[wi])
                  key == <<chs[ci], chs[ci + 1]>>
              IN  /\ DictKeys(b') = DictKeys(b) \cup {key}
                  /\ Len(b') = Cardinality(DictKeys(b'))
                  /\ \A other \in DictKeys(b') :
                         DictGet(b', other, 0) =
                             DictGet(b, other, 0) + (IF other = key THEN 1 ELSE 0)
                  /\ UNCHANGED words
      ]_vars

\* "aaa" after the second (a, a) has been counted in both loops
C22_Witness ==
    /\ words = <<(<<"a", "a", "a">>)>>
    /\ pc = "dense_loop"
    /\ ci = 4
    /\ N[1][1] = 2
    /\ DictGet(b, <<"a", "a">>, 0) = 2

\* C23: whatever cells ran before it (the earlier cell binding words and
\* chars, earlier runs of the 2D array cell itself), when the 2D array cell
\* has run to its end chars, stoi and N are those computed from the current
\* words alone: N is the dense count of words, with nothing left over.
C23_DenseCellIgnoresEarlierCells ==
    pc = "done" =>
        /\ chars = WithToken(DeriveChars(words))
        /\ stoi = MakeStoi(chars)
        /\ N = DenseCell(words)

\* the cell ran on ["aaa"], then the earlier cell bound words and chars anew,
\* then the cell ran again: the two (a, a) of the first run are gone
C23_Witness ==
    /\ pc = "done"
    /\ cells_run = <<[cell |-> "2D array", words |-> <<(<<"a", "a", "a">>)>>],
                     [cell |-> "chars", words |-> EarlierWords]>>
    /\ words = EarlierWords
    /\ N[1][1] = 0
    /\ N[1][2] = 1

\* C24: g = gen() prints nothing; the first next(g) prints "Start" and
\* returns 1, the second prints "Middle" and returns 2, so the quiz program
\* with its two print(next(g)) prints exactly Start, 1, Middle, 2; "End" is
\* printed only by a third next(g), which yields no value.
C24_GenRunsLazily ==
    gen.pc # "not called" =>
        /\ gen.pc = "created" <=> gen.nexts = 0
        /\ gen.pc = "yield 1" <=> gen.nexts = 1
        /\ gen.pc = "yield 2" <=> gen.nexts = 2
        /\ gen.pc = "exhausted" <=> gen.nexts >= 3
        /\ gen.nexts = 0 => gen.out = <<>>
        /\ gen.nexts = 1 => gen.out = <<"Start", "1">>
        /\ gen.nexts = 2 => gen.out = <<"Start", "1", "Middle", "2">>
        /\ gen.nexts >= 3 =>
               /\ gen.out = <<"Start", "1", "Middle", "2", "End">>
               /\ gen.stops = gen.nexts - 2

\* the quiz program has ended and a third next(g) was made
C24_Witness ==
    /\ gen.pc = "exhausted"
    /\ gen.nexts = 3
    /\ gen.stops = 1
    /\ gen.out[5] = "End"

\* the number of characters of the first n words
CharsOfFirst(n) == SumSeq([i \in 1..n |-> Len(words[i])])

\* the first n words have been fully processed by the sparse / dense loop
SparseProcessed(n) ==
    \/ pc = "dict_loop" /\ ci = 1 /\ wi = n + 1
    \/ SparseDone /\ n = Len(words)

DenseProcessed(n) ==
    \/ pc = "dense_loop" /\ ci = 1 /\ wi = n + 1
    \/ pc = "done" /\ n = Len(words)

\* C25: in every state in which the first n words (0 <= n <= W) have been
\* fully processed, the counts of the table (b, and likewise N) add up to the
\* number of characters of those n words plus n; and no count decreases from
\* one state of the counting pass to the next.
C25_PassInvariant ==
    /\ [](\A n \in 0..Len(words) :
              /\ SparseProcessed(n) => SumCounts(b) = CharsOfFirst(n) + n
              /\ DenseProcessed(n) => SumMatrix(N) = CharsOfFirst(n) + n)
    /\ [][/\ pc = "dict_loop" =>
                  \A key \in DictKeys(b) : DictGet(b', key, 0) >= DictGet(b, key, 0)
           /\ pc = "dense_loop" =>
                  \A i \in DOMAIN N : \A j \in DOMAIN N[i] : N'[i][j] >= N[i][j]
          ]_vars

\* ["ab", "a"] with the dense loop between its two words
C25_Witness ==
    /\ words = <<(<<"a", "b">>), (<<"a">>)>>
    /\ pc = "dense_loop"
    /\ wi = 2
    /\ ci = 1
    /\ SumMatrix(N) = 3
    /\ SumCounts(b) = 5

\* N[r, :].sum() and N[:, c].sum()
RowSum(M, r) ==
    LET n == Cardinality(DOMAIN M) IN SumSeq([j \in 1..n |-> M[r][j - 1]])

ColSum(M, c) ==
    LET n == Cardinality(DOMAIN M) IN SumSeq([i \in 1..n |-> M[i - 1][c]])

\* the number of occurrences of the character c in the corpus
CharCount(c) ==
    Cardinality({pos \in (DOMAIN words) \X (1..MaxChars) :
                     pos[2] <= Len(words[pos[1]]) /\ words[pos[1]][pos[2]] = c})

\* C26: for a corpus in which no word contains '.', the row and the column
\* of the boundary token both add up to the number of words, and for every
\* character c of the words the row and the column of stoi[c] both add up
\* to the number of occurrences of c in the corpus.
C26_FlowConservation ==
    (pc = "done" /\ NoTokenInWords) =>
        /\ RowSum(N, stoi["."]) = TotalWords
        /\ ColSum(N, stoi["."]) = TotalWords
        /\ \A c \in JoinedChars(words) :
               /\ RowSum(N, stoi[c]) = CharCount(c)
               /\ ColSum(N, stoi[c]) = CharCount(c)

\* ["ab", "b"]: b occurs twice, once after a and once after the boundary
C26_Witness ==
    /\ pc = "done"
    /\ words = <<(<<"a", "b">>), (<<"b">>)>>
    /\ RowSum(N, stoi["b"]) = 2
    /\ ColSum(N, stoi["b"]) = 2
    /\ N[stoi["a"]][stoi["b"]] = 1
    /\ N[stoi["."]][stoi["b"]] = 1
    /\ RowSum(N, stoi["."]) = 2

\* C27: an empty word gives the one pair (start marker, end marker) and
\* nothing else: b[('<S>', '<E>')] is the number of empty words, the key
\* being absent when there are none, and when no word contains '.' the cell
\* N[stoi['.'], stoi['.']] is that number too (zero when there are none).
C27_EmptyWordsCountedOnce ==
    /\ SparseDone =>
           /\ DictGet(b, <<"<S>", "<E>">>, 0) = EmptyWords
           /\ <<"<S>", "<E>">> \in DictKeys(b) <=> EmptyWords > 0
           /\ EmptyWords = Len(words) => b = <<(<<(<<"<S>", "<E>">>), Len(words)>>)>>
    /\ (pc = "done" /\ NoTokenInWords) =>
           /\ N[stoi["."]][stoi["."]] = EmptyWords
           /\ EmptyWords = Len(words) => SumMatrix(N) = Len(words)

\* ["", "a"]: one empty word beside a word that is not empty
C27_Witness ==
    /\ pc = "done"
    /\ words = <<(<<>>), (<<"a">>)>>
    /\ DictGet(b, <<"<S>", "<E>">>, 0) = 1
    /\ Len(b) = 3
    /\ N[0][0] = 1

\* the words of the corpus listed in the order p, and the ranking the
\* dictionary cell computes for them
Reordered(p) == [i \in DOMAIN words |-> words[p[i]]]

RankingOf(ws) == SortedByCount(SparseCount(ws))

\* C28 (as amended): for every permutation of the words of the corpus the
\* ranking has the same entries and the same sequence of counts, hence the
\* same relative order of any two bigrams of different counts; bigrams of
\* equal count are listed in the order in which they first occur in the
\* words as listed, an order that can differ from one permutation to another.
C28_RankingSameUpToTies ==
    pc = "dict_print" =>
        \A p \in WordOrders(Len(words)) :
            LET table == SparseCount(Reordered(p))
                ranking == RankingOf(Reordered(p))
            IN  /\ Len(ranking) = Len(sorted_bigrams)
                /\ Range(ranking) = Range(sorted_bigrams)
                /\ \A i \in DOMAIN ranking : ranking[i][2] = sorted_bigrams[i][2]
                /\ \A i \in DOMAIN ranking : \A j \in DOMAIN ranking :
                       (i < j /\ ranking[i][2] = ranking[j][2]) =>
                           PlaceOf(table, ranking[i][1]) < PlaceOf(table, ranking[j][1])

\* C28 as stated: for every permutation of the words the ranking is the same
\* sequence, ties included.
C28_RankingSameForEveryWordOrder ==
    pc = "dict_print" =>
        \A p \in WordOrders(Len(words)) : RankingOf(Reordered(p)) = sorted_bigrams

\* ["b", "a"]: every pair has count 1; listed as ["a", "b"] the words give the
\* same entries with the pairs of "a" in front
C28_Witness ==
    /\ pc = "dict_print"
    /\ words = <<(<<"b">>), (<<"a">>)>>
    /\ sorted_bigrams[1] = <<(<<"<S>", "b">>), 1>>
    /\ RankingOf(<<words[2], words[1]>>)[1] = <<(<<"<S>", "a">>), 1>>
    /\ Range(RankingOf(<<words[2], words[1]>>)) = Range(sorted_bigrams)

\* C29: formatting 0.456 with the format spec .1f gives 0.4, so the program
\* of Quiz 11 prints "Loss: 0.4".
C29_LossPrintsZeroPointFour ==
    (quiz11.pc = "printed" /\ quiz11.thousandths = 456) => quiz11.out = "Loss: 0.4"

====
